---- MODULE Spec2Model ----
(***************************************************************************)
(* Conversation-turn pipeline of the scouting assistant backend:           *)
(* api_module/main.py (chat, reset), api_module/utilities.py (session      *)
(* store helpers), chatbot_module/chatbot.py (answer_question) and         *)
(* chatbot_module/tools.py, tools_extensions.py (parsing, dedup, strip).   *)
(*                                                                         *)
(* Text is modelled line by line.  A line is a record [t, name]: t is the  *)
(* class of the line with respect to the regular expressions of tools.py,  *)
(* name is the text between ':' and ']]' of an opening tag.  Names are     *)
(* sequences of characters so that strip() and lower() are computed.       *)
(***************************************************************************)
EXTENDS Integers, Sequences, FiniteSets, TLC

(* ------------------------------ bounds --------------------------------- *)
\* number of /chat requests accepted in one behaviour
MaxChats == 2
\* number of lines of a text given to the stripper and the block parser
MaxLines == 4
\* number of player records in a reply of the meta parser model
MaxPlayers == 2

(* --------------------------- characters, names ------------------------- *)
NoName == <<>>
NmD    == <<"D">>
Nmd    == <<"d">>
PadD   == <<" ", "D">>
NmPlayer == <<"P">>

\* str.lower() on one character
LowerChar(c) == CASE c = "D" -> "d" [] c = "P" -> "p" [] OTHER -> c

\* str.lower()
LowerName(s) == [i \in 1..Len(s) |-> LowerChar(s[i])]

RECURSIVE LStrip(_)
LStrip(s) == IF s # <<>> /\ Head(s) = " " THEN LStrip(Tail(s)) ELSE s

RECURSIVE RStrip(_)
RStrip(s) == IF s # <<>> /\ s[Len(s)] = " " THEN RStrip(SubSeq(s, 1, Len(s) - 1)) ELSE s

\* str.strip()
StripName(s) == RStrip(LStrip(s))

(* ------------------------- values of the fields ------------------------ *)
\* a Python or JSON value: None/null, an int, or a str
PNone   == [k |-> "null", v |-> 0, s |-> <<>>]
PInt(n) == [k |-> "int",  v |-> n, s |-> <<>>]
PStr(x) == [k |-> "str",  v |-> 0, s |-> x]

DigitChars == {"0", "1", "2", "3", "4", "5", "6", "7", "8", "9"}

DigitVal(c) ==
    CASE c = "0" -> 0 [] c = "1" -> 1 [] c = "2" -> 2 [] c = "3" -> 3 [] c = "4" -> 4
      [] c = "5" -> 5 [] c = "6" -> 6 [] c = "7" -> 7 [] c = "8" -> 8 [] OTHER -> 9

RECURSIVE DigitsVal(_, _)
DigitsVal(s, acc) ==
    IF s = <<>> THEN acc ELSE DigitsVal(Tail(s), acc * 10 + DigitVal(Head(s)))

IsDigits(s) == s # <<>> /\ \A i \in 1..Len(s) : s[i] \in DigitChars

\* int(str): surrounding whitespace, an optional sign, decimal digits; PNone
\* stands for the ValueError
PyInt(s) ==
    LET t == StripName(s)
    IN  IF t # <<>> /\ Head(t) \in {"-", "+"}
        THEN IF IsDigits(Tail(t))
             THEN PInt((IF Head(t) = "-" THEN -1 ELSE 1) * DigitsVal(Tail(t), 0))
             ELSE PNone
        ELSE IF IsDigits(t) THEN PInt(DigitsVal(t, 0)) ELSE PNone

(* -------------------------------- lines -------------------------------- *)
Line(t, n) == [t |-> t, name |-> n]
PO(n)  == Line("popen", n)          \* [[PLAYER_PROFILE:<n>]]
PC     == Line("pclose", NoName)    \* [[/PLAYER_PROFILE]]
SO(n)  == Line("sopen", n)          \* [[PLAYER_STATS:<n>]]
SC     == Line("sclose", NoName)    \* [[/PLAYER_STATS]]
FL     == Line("field", NoName)     \* - Nationality: X
PT(v)  == Line("potential", v)      \* - Potential:<v>
SI     == Line("stati", NoName)     \* 1. Goals: 5
PR     == Line("prose", NoName)     \* John Doe is strong.
BL     == Line("blank", NoName)     \* empty line
HD     == Line("hdr", NoName)       \* **Player Analysis: John Doe**
MB     == Line("metab", NoName)     \* - **Nationality**: X
SH     == Line("stath", NoName)     \* **Performance Statistics**
QL     == Line("question", NoName)  \* the user's question
TL     == Line("translated", NoName) \* a line written by the translator

\* The fixed fallback sentence of answer_question
SORRY == <<Line("sorry", NoName)>>

\* text.strip() at line granularity: leading and trailing empty lines go
RECURSIVE LStripText(_)
LStripText(x) == IF x # <<>> /\ Head(x).t = "blank" THEN LStripText(Tail(x)) ELSE x

RECURSIVE RStripText(_)
RStripText(x) ==
    IF x # <<>> /\ x[Len(x)].t = "blank" THEN RStripText(SubSeq(x, 1, Len(x) - 1)) ELSE x

StripText(x) == RStripText(LStripText(x))

(* --------------------------- regular expressions ----------------------- *)
FLAG_BLOCK_START_RE(l) == l.t \in {"popen", "sopen"}
FLAG_BLOCK_END_RE(l)   == l.t \in {"pclose", "sclose"}
META_LINE_RE(l)        == l.t = "metab"
STATS_HEADER_RE(l)     == l.t = "stath"
STATS_ITEM_RE(l)       == l.t \in {"stati", "metab"}
\* looks_like_name_or_analysis_header: a bold line, or a line in Title Case of
\* two words or more ("- Nationality: X" and "1. Goals: 5" are in Title Case,
\* "- Potential:<v>" is when v has no lower-case letter)
looks_like_name_or_analysis_header(l) ==
    \/ l.t \in {"hdr", "stath", "metab", "field", "stati"}
    \/ l.t = "potential" /\ \A i \in 1..Len(l.name) : l.name[i] \notin {"x", "d", "p"}
IsBlank(l)             == l.t = "blank"

(* ----------------------- strip_meta_stats_text ------------------------- *)
\* index of the first END line at or after i, Len+1 when there is none
RECURSIVE FindEnd(_, _)
FindEnd(lines, i) ==
    IF i > Len(lines) THEN i
    ELSE IF FLAG_BLOCK_END_RE(lines[i]) THEN i
    ELSE FindEnd(lines, i + 1)

\* variant of (A) that drops the lines of the tags and keeps what is between them
RECURSIVE FlagPassTagsOnly(_, _)
FlagPassTagsOnly(lines, i) ==
    IF i > Len(lines) THEN <<>>
    ELSE IF FLAG_BLOCK_START_RE(lines[i])
         THEN SubSeq(lines, i + 1, FindEnd(lines, i + 1) - 1)
                  \o FlagPassTagsOnly(lines, FindEnd(lines, i + 1) + 1)
         ELSE <<lines[i]>> \o FlagPassTagsOnly(lines, i + 1)

\* (A) first pass: drop flagged blocks entirely
RECURSIVE FlagPass(_, _)
FlagPass(lines, i) ==
    IF i > Len(lines) THEN <<>>
    ELSE IF FLAG_BLOCK_START_RE(lines[i])
         THEN FlagPass(lines, FindEnd(lines, i + 1) + 1)
         ELSE <<lines[i]>> \o FlagPass(lines, i + 1)

\* first index at or after j whose line is neither blank nor a meta bullet
RECURSIVE SkipMeta(_, _)
SkipMeta(lines, j) ==
    IF j <= Len(lines) /\ (IsBlank(lines[j]) \/ META_LINE_RE(lines[j]))
    THEN SkipMeta(lines, j + 1) ELSE j

RECURSIVE SkipBlank(_, _)
SkipBlank(lines, k) ==
    IF k <= Len(lines) /\ IsBlank(lines[k]) THEN SkipBlank(lines, k + 1) ELSE k

RECURSIVE SkipStats(_, _)
SkipStats(lines, i) ==
    IF i <= Len(lines) /\ (IsBlank(lines[i]) \/ STATS_ITEM_RE(lines[i]))
    THEN SkipStats(lines, i + 1) ELSE i

HeaderDropped(lines, i) ==
    /\ looks_like_name_or_analysis_header(lines[i])
    /\ LET saw_meta  == \E j \in (i + 1)..(SkipMeta(lines, i + 1) - 1) : META_LINE_RE(lines[j])
           k         == SkipBlank(lines, i + 1)
           saw_stats == k <= Len(lines) /\ STATS_HEADER_RE(lines[k])
       IN  saw_meta \/ saw_stats

\* variant of (B) that does not remove the meta bullet lines
RECURSIVE LegacyPassKeepMeta(_, _)
LegacyPassKeepMeta(lines, i) ==
    IF i > Len(lines) THEN <<>>
    ELSE IF HeaderDropped(lines, i) THEN LegacyPassKeepMeta(lines, i + 1)
    ELSE IF STATS_HEADER_RE(lines[i]) THEN LegacyPassKeepMeta(lines, SkipStats(lines, i + 1))
    ELSE <<lines[i]>> \o LegacyPassKeepMeta(lines, i + 1)

\* (B) legacy cleanups
RECURSIVE LegacyPass(_, _)
LegacyPass(lines, i) ==
    IF i > Len(lines) THEN <<>>
    ELSE IF HeaderDropped(lines, i) THEN LegacyPass(lines, i + 1)
    ELSE IF META_LINE_RE(lines[i]) THEN LegacyPass(lines, i + 1)
    ELSE IF STATS_HEADER_RE(lines[i]) THEN LegacyPass(lines, SkipStats(lines, i + 1))
    ELSE <<lines[i]>> \o LegacyPass(lines, i + 1)

\* re.sub(r"\n{3,}", "\n\n", ...): a run of two or more empty lines becomes one
RECURSIVE CollapseBlank(_)
CollapseBlank(x) ==
    IF Len(x) < 2 THEN x
    ELSE IF IsBlank(x[1]) /\ IsBlank(x[2]) THEN CollapseBlank(Tail(x))
    ELSE <<x[1]>> \o CollapseBlank(Tail(x))

strip_meta_stats_text(text) ==
    IF text = <<>> THEN text
    ELSE StripText(CollapseBlank(LegacyPass(FlagPass(text, 1), 1)))

(* ------------------------- session store rows -------------------------- *)
Msg(role, content, turn) == [role |-> role, content |-> content, turn |-> turn]

\* create_qa_chain step 2: rows become HumanMessage / AIMessage, others are ignored
RECURSIVE hydrate(_)
hydrate(rows) ==
    IF rows = <<>> THEN <<>>
    ELSE IF Head(rows).role \in {"human", "ai"}
         THEN <<Head(rows)>> \o hydrate(Tail(rows))
         ELSE hydrate(Tail(rows))

(* ------------------------------ dedup ---------------------------------- *)
\* names of the [[PLAYER_PROFILE:<Name>]] tags of one text, stripped, non-empty
ProfileTagNames(content) ==
    { StripName(content[i].name) : i \in { j \in 1..Len(content) : content[j].t = "popen" } }
        \ {NoName}

get_seen_players_from_history(history) ==
    UNION { ProfileTagNames(history[i].content) :
              i \in { j \in 1..Len(history) : history[j].role = "ai" } }

\* names of a list of parsed players that are truthy, stripped
NamesOf(players) ==
    { StripName(players[i].name) : i \in { j \in 1..Len(players) : players[j].name # NoName } }

filter_players_by_seen(meta, stats, seen_names) ==
    LET seen_norm     == { StripName(n) : n \in seen_names }
        current_names == NamesOf(meta) \cup NamesOf(stats)
        new_names     == { n \in current_names : n # NoName /\ n \notin seen_norm }
    IN  [meta  |-> SelectSeq(meta,  LAMBDA p : StripName(p.name) \in new_names),
         stats |-> SelectSeq(stats, LAMBDA p : StripName(p.name) \in new_names),
         new_names |-> new_names]

(* ------------------------------ parsers -------------------------------- *)
\* replies of the parser models (external): an exception, text that is not
\* JSON, JSON that is not an object, or an object with a players list
Raise      == [kind |-> "raise",   players |-> <<>>]
Invalid    == [kind |-> "invalid", players |-> <<>>]
NotObject  == [kind |-> "list",    players |-> <<>>]
Json(ps)   == [kind |-> "json",    players |-> ps]

\* parse_statistical_highlights on a JSON object: the name defaults to
\* "Player", players without numeric stats are dropped
RECURSIVE norm_stats_players(_)
norm_stats_players(ps) ==
    IF ps = <<>> THEN <<>>
    ELSE LET p    == Head(ps)
             name == IF p.name = NoName THEN NmPlayer ELSE p.name
         IN  (IF p.stats # <<>> THEN <<[name |-> name, stats |-> p.stats]>> ELSE <<>>)
                 \o norm_stats_players(Tail(ps))

\* the player list, or raises when the chain call raises
parse_statistical_highlights(reply) ==
    IF reply.kind = "raise" THEN [raise |-> TRUE, players |-> <<>>]
    ELSE IF reply.kind = "json" THEN [raise |-> FALSE, players |-> norm_stats_players(reply.players)]
    ELSE [raise |-> FALSE, players |-> <<>>]

\* PROFILE_BLOCK_RE closers: [[/PLAYER_PROFILE]] or a PLAYER_STATS tag with a name
ProfileCloser(l) == l.t = "pclose" \/ (l.t = "sopen" /\ l.name # NoName)

\* PROFILE_BLOCK_RE.search: index of the first open tag with a name that has a
\* closer after it, 0 when there is none
ProfileBlockStart(raw) ==
    LET cand == { i \in 1..Len(raw) :
                    /\ raw[i].t = "popen" /\ raw[i].name # NoName
                    /\ \E j \in (i + 1)..Len(raw) : ProfileCloser(raw[j]) }
    IN  IF cand = {} THEN 0 ELSE CHOOSE i \in cand : \A k \in cand : i <= k

\* PROFILE_BLOCK_RE, group body: the lines between the open tag at i and the
\* first closer after it
ProfileBlockBody(raw, i) ==
    LET j == CHOOSE c \in (i + 1)..Len(raw) :
                 ProfileCloser(raw[c]) /\ \A k \in (i + 1)..(c - 1) : ~ProfileCloser(raw[k])
    IN  SubSeq(raw, i + 1, j - 1)

\* fallback_parse_profile_block_new, lines 84-86: each "- potential" line of
\* the body sets potential to int(<v>) unless int raises
RECURSIVE BodyPotential(_, _)
BodyPotential(body, potential) ==
    IF body = <<>> THEN potential
    ELSE BodyPotential(Tail(body),
                       IF Head(body).t = "potential" /\ PyInt(Head(body).name) # PNone
                       THEN PyInt(Head(body).name) ELSE potential)

fallback_parse_profile_block_new(raw_text) ==
    LET i == ProfileBlockStart(raw_text)
    IN  IF i = 0 THEN <<>>
        ELSE <<[name |-> StripName(raw_text[i].name),
                potential |-> BodyPotential(ProfileBlockBody(raw_text, i), PNone)]>>

\* parse_player_meta_new, lines 142-150: int(float(pot)) held within 0..100,
\* None when pot is None or the conversion raises
normalize_potential(pot) ==
    LET n == IF pot.k = "int" THEN pot ELSE IF pot.k = "str" THEN PyInt(pot.s) ELSE PNone
    IN  IF n = PNone THEN PNone
        ELSE PInt(IF n.v < 0 THEN 0 ELSE IF n.v > 100 THEN 100 ELSE n.v)

\* parse_player_meta_new, lines 123-156: the records of the model's JSON
RECURSIVE players_out(_)
players_out(ps) ==
    IF ps = <<>> THEN <<>>
    ELSE <<[name |-> Head(ps).name, potential |-> normalize_potential(Head(ps).potential)]>>
             \o players_out(Tail(ps))

\* parse_player_meta_new: the model's JSON, else the profile-block fallback
parse_player_meta_new(reply, raw_text) ==
    IF reply.kind = "list" THEN [raise |-> TRUE, players |-> <<>>]
    ELSE LET out == IF reply.kind = "json" THEN players_out(reply.players) ELSE <<>>
         IN  [raise |-> FALSE,
              players |-> IF out = <<>>
                          THEN fallback_parse_profile_block_new(raw_text)
                          ELSE out]

\* build_player_payload_new, line 373: a dict keyed by the stripped name, in
\* which a later record of a name replaces an earlier one
meta_by(meta) ==
    [n \in NamesOf(meta) |->
        LET idx == { i \in 1..Len(meta) : meta[i].name # NoName /\ StripName(meta[i].name) = n }
        IN  meta[CHOOSE i \in idx : \A k \in idx : k <= i]]

\* build_player_payload_new(meta): one entry per stripped, truthy name, with
\* the potential of the record the dict holds for it
build_player_payload_new(meta) ==
    { [name |-> n, potential |-> meta_by(meta)[n].potential] : n \in NamesOf(meta) }

\* variant of the call of answer_question that passes the unfiltered meta alone
payload_for_all_players(meta, stats, seen_players) ==
    [raise |-> FALSE, players |-> build_player_payload_new(meta)]

\* answer_question, lines 303-306: filter, then build_player_payload_new called
\* with two positional arguments (it takes one: TypeError) when there are new names
payload_for_new_players(meta, stats, seen_players) ==
    LET f == filter_players_by_seen(meta, stats, seen_players)
    IN  IF f.new_names # {}
        THEN [raise |-> TRUE,  players |-> {}]
        ELSE [raise |-> FALSE, players |-> {}]

\* answer_question, lines 273-310: the parse stage of one answer
ParseStage(base_answer, seen_players, stats_reply, meta_reply) ==
    LET parsed_stats == parse_statistical_highlights(stats_reply)
        meta         == parse_player_meta_new(meta_reply, base_answer)
        payload      == payload_for_new_players(meta.players, parsed_stats.players, seen_players)
    IN  IF parsed_stats.raise \/ meta.raise \/ payload.raise
        THEN [raise |-> TRUE,  players |-> {}, cleaned |-> <<>>]
        ELSE [raise |-> FALSE, players |-> payload.players,
              cleaned |-> strip_meta_stats_text(base_answer)]

(* ------------------------------ languages ------------------------------ *)
NoLang == "none"

\* normalize_lang on the Accept-Language headers the model sends
normalize_lang(value) ==
    CASE value = "none"  -> NoLang
      [] value = "en-US" -> "en"
      [] value = "TR"    -> "tr"
      [] OTHER           -> NoLang

\* is_turkish(lang): the session language is not the pivot language
is_turkish(lang) == lang = "tr"

\* replies of the translator (external): an exception, a text, or the input itself
TrRaise     == [kind |-> "raise", text |-> <<>>]
TrEcho      == [kind |-> "echo",  text |-> <<>>]
TrText(x)   == [kind |-> "text",  text |-> x]
ReplyText(reply, input) == IF reply.kind = "echo" THEN input ELSE reply.text
\* how a translator call ended: "raise", "echo", "empty" or "text"
ReplyKind(reply) ==
    IF reply.kind = "text" /\ StripText(reply.text) = <<>> THEN "empty" ELSE reply.kind

\* variant that lets the translator's exception escape
translate_or_raise(text, lang, reply) ==
    IF ~is_turkish(lang) THEN [raise |-> FALSE, text |-> text]
    ELSE IF reply.kind = "raise" THEN [raise |-> TRUE, text |-> <<>>]
    ELSE [raise |-> FALSE, text |-> StripText(ReplyText(reply, text))]

\* translate_to_english_if_needed: the stripped reply, or the original when the
\* language is not Turkish, the call raised or the reply was empty
translate_to_english_if_needed(text, lang, reply) ==
    IF ~is_turkish(lang) THEN [raise |-> FALSE, text |-> text]
    ELSE IF reply.kind = "raise" THEN [raise |-> FALSE, text |-> text]
    ELSE LET translated == StripText(ReplyText(reply, text))
         IN  [raise |-> FALSE, text |-> IF translated # <<>> THEN translated ELSE text]

\* answer_question, lines 312-339: outbound translation of the narrative
translate_out(out, session_lang, reply) ==
    IF ~is_turkish(session_lang) THEN [raise |-> FALSE, text |-> out]
    ELSE IF reply.kind = "raise" THEN [raise |-> FALSE, text |-> out]
    ELSE LET translated_out == StripText(ReplyText(reply, out))
         IN  [raise |-> FALSE, text |-> IF translated_out # <<>> THEN translated_out ELSE out]

(* ------------------------------- inputs -------------------------------- *)
AllTokens == {"s1", "s2"}
Procs     == {"p1", "p2"}
Users     == {"u1"}
Headers   == {"none", "en-US", "TR"}
Questions == {<<QL>>}
TransReplies == {TrRaise, TrEcho, TrText(<<>>), TrText(<<TL, BL>>)}

\* texts the generator may return
RawNew    == <<PO(NmD), FL, PC, SO(NmD), SI, SC, PR>>
RawLower  == <<PO(Nmd), FL, PC, PR>>
RawProse  == <<PR, BL>>
RawEmpty  == <<>>
RawTexts  == {RawNew, RawLower, RawProse, RawEmpty}

StatsReplies == {Raise, Invalid, Json(<<[name |-> NmD, stats |-> <<5>>]>>)}
MetaReplies  == {Invalid, NotObject, Json(<<[name |-> PadD, potential |-> PInt(50)]>>)}

(* -------------------------------- state -------------------------------- *)
VARIABLES
    tokens,         \* the session tokens in use
    sessions,       \* table sessions: token -> row
    chat_messages,  \* table chat_messages: token -> rows in id order
    proc,           \* per service process: the request it serves and its locals
    last,           \* the outcome of the /chat request that ended last
    nchats,         \* number of /chat requests accepted so far
    reset_names,    \* per token: the seen names the last reset purged
    reset_clean     \* per token: the last reset completed with no turn in flight

vars == <<tokens, sessions, chat_messages, proc, last, nchats, reset_names, reset_clean>>

NoRow == [exists |-> FALSE, user_id |-> "none", language |-> NoLang, ended |-> FALSE]
Row(uid, l) == [exists |-> TRUE, user_id |-> uid, language |-> l, ended |-> FALSE]

Idle ==
    [pc |-> "idle", op |-> "none", tok |-> "none", uid |-> "none", lang_hdr |-> NoLang,
     question |-> <<>>, active |-> FALSE, lang |-> NoLang, history |-> <<>>,
     seen |-> {}, tq |-> <<>>, base |-> <<>>, cleaned |-> <<>>, answer |-> <<>>,
     players |-> {}, has_data |-> FALSE, serial |-> 0,
     gen |-> "none", stage_raise |-> FALSE, app_failed |-> FALSE,
     n_user |-> 0, n_ai |-> 0, tr_in |-> "none", tr_out |-> "none",
     prior |-> {}, wiped |-> FALSE, after_reset |-> FALSE, old_names |-> {},
     overlapped |-> FALSE, parsed |-> {}, clean |-> FALSE,
     reply |-> Invalid, meta |-> <<>>]

InFlight == {"upsert", "load", "translate_in", "generate", "append_user", "append_ai",
             "h_user", "h_ai", "parse", "translate_out", "e_user", "e_ai", "hung"}

ChatInFlight(p, tok) == proc[p].op = "chat" /\ proc[p].tok = tok /\ proc[p].pc \in InFlight

\* session_exists_and_active
session_exists_and_active(tok) == sessions[tok].exists /\ ~sessions[tok].ended

\* get_session_language(...) or "en"
get_session_language(tok) ==
    IF session_exists_and_active(tok) /\ sessions[tok].language # NoLang
    THEN sessions[tok].language ELSE "en"

\* variant whose SELECT has no WHERE clause: the rows of every token
load_all_messages(tok) == chat_messages["s1"] \o chat_messages["s2"]

\* load_chat_messages
load_chat_messages(tok) == chat_messages[tok]

\* trimmed, case-folded names of the PROFILE tags of the persisted assistant messages
PersistedNames(tok) ==
    { LowerName(n) : n \in get_seen_players_from_history(chat_messages[tok]) }

Init ==
    /\ tokens = {"s1"}
    /\ sessions = [t \in AllTokens |-> NoRow]
    /\ chat_messages = [t \in AllTokens |-> <<>>]
    /\ proc = [p \in Procs |-> Idle]
    /\ last = Idle
    /\ nchats = 0
    /\ reset_names = [t \in AllTokens |-> {}]
    /\ reset_clean = [t \in AllTokens |-> FALSE]

(* ------------------------------ POST /chat ----------------------------- *)
\* chat, lines 439-444: the request is accepted, the session row is looked up
ChatBegin(p, tok, uid, hdr, q) ==
    /\ proc[p].pc = "idle"
    /\ tok \in tokens
    /\ nchats < MaxChats
    /\ LET hl   == normalize_lang(hdr)
           over == \E o \in Procs \ {p} : ChatInFlight(o, tok)
       IN  proc' = [o \in Procs |->
             IF o = p
             THEN [Idle EXCEPT !.pc = "upsert", !.op = "chat", !.tok = tok, !.uid = uid,
                               !.lang_hdr = IF hl # NoLang THEN hl ELSE "en",
                               !.question = q,
                               !.active = session_exists_and_active(tok),
                               !.serial = nchats + 1,
                               !.prior = PersistedNames(tok),
                               !.after_reset = reset_clean[tok],
                               !.old_names = IF reset_clean[tok] THEN reset_names[tok] ELSE {},
                               !.overlapped = over]
             ELSE IF ChatInFlight(o, tok) THEN [proc[o] EXCEPT !.overlapped = TRUE]
             ELSE IF proc[o].op = "reset" /\ proc[o].tok = tok
                  THEN [proc[o] EXCEPT !.clean = FALSE]
             ELSE proc[o]]
    /\ nchats' = nchats + 1
    /\ reset_clean' = [reset_clean EXCEPT ![tok] = FALSE]
    /\ UNCHANGED <<tokens, sessions, chat_messages, last, reset_names>>

\* chat, lines 444-464: upsert of the row, or update of the language
ChatUpsert(p) ==
    /\ proc[p].pc = "upsert"
    /\ LET tok == proc[p].tok
           row == sessions[tok]
       IN  sessions' = [sessions EXCEPT ![tok] =
             IF ~proc[p].active THEN Row(proc[p].uid, proc[p].lang_hdr)
             ELSE IF row.exists /\ ~row.ended
                  THEN [row EXCEPT !.language = proc[p].lang_hdr]
                  ELSE row]
    /\ proc' = [proc EXCEPT ![p].pc = "load", ![p].uid = "none", ![p].active = FALSE,
                            ![p].lang_hdr = NoLang]
    /\ UNCHANGED <<tokens, chat_messages, last, nchats, reset_names, reset_clean>>

\* variant that keeps the conversation memory in the process instead of
\* hydrating it from the store
LoadSessionFromMemory(p) ==
    /\ proc[p].pc = "load"
    /\ proc' = [proc EXCEPT ![p].lang = get_session_language(proc[p].tok),
                            ![p].seen = get_seen_players_from_history(proc[p].history),
                            ![p].tq = proc[p].question,
                            ![p].pc = IF is_turkish(get_session_language(proc[p].tok))
                                      THEN "translate_in" ELSE "generate"]
    /\ UNCHANGED <<tokens, sessions, chat_messages, last, nchats, reset_names, reset_clean>>

\* create_qa_chain and answer_question, lines 196-208
LoadSession(p) ==
    /\ proc[p].pc = "load"
    /\ LET tok  == proc[p].tok
           lang == get_session_language(tok)
           hist == hydrate(load_chat_messages(tok))
       IN  proc' = [proc EXCEPT ![p].lang = lang,
                                ![p].history = hist,
                                ![p].seen = get_seen_players_from_history(hist),
                                ![p].tq = proc[p].question,
                                ![p].pc = IF is_turkish(lang) THEN "translate_in"
                                          ELSE "generate"]
    /\ UNCHANGED <<tokens, sessions, chat_messages, last, nchats, reset_names, reset_clean>>

\* the request ends with an exception (HTTP 500)
Fail(p, r) ==
    /\ proc' = [proc EXCEPT ![p] = Idle]
    /\ last' = [r EXCEPT !.pc = "raised", !.history = <<>>, !.tq = <<>>, !.seen = {}]

\* chat, lines 472-478: the stripped answer and data, or no players without data
Respond(p, r, answer, players, has_data) ==
    /\ proc' = [proc EXCEPT ![p] = Idle]
    /\ last' = [r EXCEPT !.pc = "done", !.answer = StripText(answer), !.players = players,
                         !.has_data = has_data, !.history = <<>>, !.tq = <<>>, !.seen = {}]

\* answer_question, line 208: the inbound translator call
TranslateIn(p, reply) ==
    /\ proc[p].pc = "translate_in"
    /\ LET r == translate_to_english_if_needed(proc[p].question, proc[p].lang, reply)
           g == [proc[p] EXCEPT !.tr_in = ReplyKind(reply)]
       IN  IF r.raise
           THEN Fail(p, g)
           ELSE /\ proc' = [proc EXCEPT ![p] = [g EXCEPT !.tq = r.text, !.pc = "generate"]]
                /\ UNCHANGED last
    /\ UNCHANGED <<tokens, sessions, chat_messages, nchats, reset_names, reset_clean>>

\* answer_question, lines 243-244: the generator returns a text
GenerateOk(p, raw) ==
    /\ proc[p].pc = "generate"
    /\ LET base_answer == StripText(raw)
       IN  proc' = [proc EXCEPT ![p].base = base_answer,
                                ![p].gen = IF base_answer = <<>> THEN "empty" ELSE "ok",
                                ![p].history = <<>>, ![p].tq = <<>>, ![p].tr_in = "none",
                                ![p].pc = "append_user"]
    /\ UNCHANGED <<tokens, sessions, chat_messages, last, nchats, reset_names, reset_clean>>

\* answer_question, lines 243, 266: the generator call raises
GenerateRaise(p) ==
    /\ proc[p].pc = "generate"
    /\ proc' = [proc EXCEPT ![p].gen = "raise", ![p].pc = "h_user",
                            ![p].history = <<>>, ![p].tq = <<>>, ![p].tr_in = "none"]
    /\ UNCHANGED <<tokens, sessions, chat_messages, last, nchats, reset_names, reset_clean>>

\* answer_question, line 243: the provider never answers; CHAT_LLM is built
\* (lines 57-60) without a timeout, so qa_chain.invoke does not return
GenerateHangs(p) ==
    /\ proc[p].pc = "generate"
    /\ proc' = [proc EXCEPT ![p].pc = "hung"]
    /\ UNCHANGED <<tokens, sessions, chat_messages, last, nchats, reset_names, reset_clean>>

\* variant that stores the assistant's rows only
append_ai_only(log, role, content, turn) ==
    IF role = "human" THEN log ELSE Append(log, Msg(role, content, turn))

\* append_chat_message
append_chat_message(log, role, content, turn) == Append(log, Msg(role, content, turn))

\* the locals of a turn after one more committed append
Counted(r, role) ==
    [r EXCEPT !.n_user = IF role = "human" THEN @ + 1 ELSE @,
              !.n_ai   = IF role = "ai" THEN @ + 1 ELSE @]

\* one append of a turn that is not its last step: it commits or raises
AppendStep(p, ok, role, content, next, onfail) ==
    /\ IF ok
       THEN /\ chat_messages' = [chat_messages EXCEPT ![proc[p].tok] =
                 append_chat_message(@, role, content, proc[p].serial)]
            /\ proc' = [proc EXCEPT ![p] = [Counted(@, role) EXCEPT !.pc = next]]
            /\ UNCHANGED last
       ELSE /\ UNCHANGED chat_messages
            /\ IF onfail = "raised"
               THEN Fail(p, [proc[p] EXCEPT !.app_failed = TRUE])
               ELSE /\ proc' = [proc EXCEPT ![p].pc = onfail, ![p].app_failed = TRUE]
                    /\ UNCHANGED last
    /\ UNCHANGED <<tokens, sessions, nchats, reset_names, reset_clean>>

\* the last append of a handler, followed by the return of the fallback text
AppendAndReturnSorry(p, ok, content) ==
    /\ IF ok
       THEN /\ chat_messages' = [chat_messages EXCEPT ![proc[p].tok] =
                 append_chat_message(@, "ai", content, proc[p].serial)]
            /\ Respond(p, Counted(proc[p], "ai"), SORRY, {}, FALSE)
       ELSE /\ UNCHANGED chat_messages
            /\ Fail(p, [proc[p] EXCEPT !.app_failed = TRUE])
    /\ UNCHANGED <<tokens, sessions, nchats, reset_names, reset_clean>>

\* answer_question, line 264
AppendUser(p, ok) ==
    /\ proc[p].pc = "append_user"
    /\ AppendStep(p, ok, "human", proc[p].question, "append_ai", "h_user")

\* variant that stores the narrative left by the stripper
AppendAiCleaned(p, ok) ==
    /\ proc[p].pc = "append_ai"
    /\ AppendStep(p, ok, "ai", strip_meta_stats_text(proc[p].base), "parse", "h_user")

\* answer_question, line 265
AppendAi(p, ok) ==
    /\ proc[p].pc = "append_ai"
    /\ AppendStep(p, ok, "ai", proc[p].base, "parse", "h_user")

\* answer_question, line 267: the handler of a failed generation or append
HandlerUser(p, ok) ==
    /\ proc[p].pc = "h_user"
    /\ AppendStep(p, ok, "human", proc[p].question, "h_ai", "raised")

\* answer_question, lines 268-269
HandlerAi(p, ok) ==
    /\ proc[p].pc = "h_ai"
    /\ AppendAndReturnSorry(p, ok, SORRY)

\* answer_question, lines 273-310 and 341: the parse stage
Parse(p, stats_reply, meta_reply) ==
    /\ proc[p].pc = "parse"
    /\ LET r == ParseStage(proc[p].base, proc[p].seen, stats_reply, meta_reply)
           m == parse_player_meta_new(meta_reply, proc[p].base)
           s == parse_statistical_highlights(stats_reply)
           g == [proc[p] EXCEPT !.parsed = IF m.raise \/ s.raise THEN {}
                                            ELSE NamesOf(m.players) \cup NamesOf(s.players),
                                !.seen = {}]
       IN  IF r.raise
           THEN /\ proc' = [proc EXCEPT ![p] = [g EXCEPT !.pc = "e_user", !.stage_raise = TRUE]]
                /\ UNCHANGED last
           ELSE IF is_turkish(proc[p].lang)
           THEN /\ proc' = [proc EXCEPT ![p] = [g EXCEPT !.pc = "translate_out",
                                                         !.cleaned = r.cleaned,
                                                         !.players = r.players]]
                /\ UNCHANGED last
           ELSE Respond(p, [g EXCEPT !.cleaned = r.cleaned], r.cleaned, r.players, TRUE)
    /\ UNCHANGED <<tokens, sessions, chat_messages, nchats, reset_names, reset_clean>>

\* answer_question, lines 312-341: the outbound translator call
TranslateOut(p, reply) ==
    /\ proc[p].pc = "translate_out"
    /\ LET r == translate_out(proc[p].cleaned, proc[p].lang, reply)
           g == [proc[p] EXCEPT !.tr_out = ReplyKind(reply)]
       IN  IF r.raise
           THEN /\ proc' = [proc EXCEPT ![p] = [g EXCEPT !.pc = "e_user", !.stage_raise = TRUE]]
                /\ UNCHANGED last
           ELSE Respond(p, g, r.text, proc[p].players, TRUE)
    /\ UNCHANGED <<tokens, sessions, chat_messages, nchats, reset_names, reset_clean>>

\* answer_question, line 348: the handler of a failed parse stage
ExcUser(p, ok) ==
    /\ proc[p].pc = "e_user"
    /\ AppendStep(p, ok, "human", proc[p].question, "e_ai", "raised")

\* answer_question, lines 349-352
ExcAi(p, ok) ==
    /\ proc[p].pc = "e_ai"
    /\ AppendAndReturnSorry(p, ok, proc[p].base)

(* ------------------------------ POST /reset ---------------------------- *)
\* variant whose DELETE removes the oldest row only
delete_oldest_message(tok) ==
    chat_messages' = [chat_messages EXCEPT ![tok] = IF @ = <<>> THEN @ ELSE Tail(@)]

\* delete_chat_messages
delete_chat_messages(tok) == chat_messages' = [chat_messages EXCEPT ![tok] = <<>>]

\* reset, line 487
ResetDelete(p, tok) ==
    /\ proc[p].pc = "idle"
    /\ tok \in tokens
    /\ delete_chat_messages(tok)
    /\ proc' = [o \in Procs |->
         IF o = p
         THEN [Idle EXCEPT !.pc = "r_end", !.op = "reset", !.tok = tok,
                           !.clean = ~\E c \in Procs : ChatInFlight(c, tok)]
         ELSE IF proc[o].op = "chat" /\ proc[o].tok = tok
              THEN [proc[o] EXCEPT !.wiped = TRUE, !.prior = {}]
              ELSE proc[o]]
    /\ last' = IF last.tok = tok THEN [last EXCEPT !.wiped = TRUE] ELSE last
    /\ reset_names' = [reset_names EXCEPT ![tok] = PersistedNames(tok)]
    /\ reset_clean' = [reset_clean EXCEPT ![tok] = FALSE]
    /\ UNCHANGED <<tokens, sessions, nchats>>

\* variant whose UPDATE clears the end timestamp
ResetEndClears(p) ==
    /\ proc[p].pc = "r_end"
    /\ LET tok == proc[p].tok
           row == sessions[tok]
       IN  /\ sessions' = [sessions EXCEPT ![tok] =
                 IF row.exists THEN [row EXCEPT !.ended = FALSE] ELSE row]
           /\ reset_clean' = [reset_clean EXCEPT ![tok] =
                 proc[p].clean /\ ~\E c \in Procs : ChatInFlight(c, tok)]
    /\ proc' = [proc EXCEPT ![p] = Idle]
    /\ UNCHANGED <<tokens, chat_messages, last, nchats, reset_names>>

\* reset, lines 490-496: the session is marked ended
ResetEnd(p) ==
    /\ proc[p].pc = "r_end"
    /\ LET tok == proc[p].tok
           row == sessions[tok]
       IN  /\ sessions' = [sessions EXCEPT ![tok] =
                 IF row.exists /\ ~row.ended THEN [row EXCEPT !.ended = TRUE] ELSE row]
           /\ reset_clean' = [reset_clean EXCEPT ![tok] =
                 proc[p].clean /\ ~\E c \in Procs : ChatInFlight(c, tok)]
    /\ proc' = [proc EXCEPT ![p] = Idle]
    /\ UNCHANGED <<tokens, chat_messages, last, nchats, reset_names>>

(* --------------------------- session helpers --------------------------- *)
\* mark_session_started
mark_session_started(tok, uid, lang) ==
    /\ tok \in tokens
    /\ sessions' = [sessions EXCEPT ![tok] = Row(uid, lang)]
    /\ UNCHANGED <<tokens, chat_messages, proc, last, nchats, reset_names, reset_clean>>

\* mark_session_ended
mark_session_ended(tok) ==
    /\ tok \in tokens
    /\ sessions[tok].exists
    /\ sessions' = [sessions EXCEPT ![tok].ended = TRUE]
    /\ UNCHANGED <<tokens, chat_messages, proc, last, nchats, reset_names, reset_clean>>

\* the steps of a request in service, translator calls apart
Serve(p) ==
    \/ ChatUpsert(p)
    \/ LoadSession(p)
    \/ \E raw \in RawTexts : GenerateOk(p, raw)
    \/ GenerateRaise(p)
    \/ \E ok \in BOOLEAN : AppendUser(p, ok)
    \/ \E ok \in BOOLEAN : AppendAi(p, ok)
    \/ \E ok \in BOOLEAN : HandlerUser(p, ok)
    \/ \E ok \in BOOLEAN : HandlerAi(p, ok)
    \/ \E sr \in StatsReplies, mr \in MetaReplies : Parse(p, sr, mr)
    \/ \E ok \in BOOLEAN : ExcUser(p, ok)
    \/ \E ok \in BOOLEAN : ExcAi(p, ok)
    \/ ResetEnd(p)

\* requests arrive at process p with Accept-Language headers H
Accept(p, H) ==
    \/ \E tok \in AllTokens, uid \in Users, hdr \in H, q \in Questions :
          ChatBegin(p, tok, uid, hdr, q)
    \/ \E tok \in AllTokens : ResetDelete(p, tok)

\* the session helpers, with languages L
Helpers(L) ==
    \/ \E tok \in AllTokens, uid \in Users, lang \in L : mark_session_started(tok, uid, lang)
    \/ \E tok \in AllTokens : mark_session_ended(tok)

\* one service process: requests are served one after the other
Next ==
    \/ Accept("p1", Headers)
    \/ Serve("p1")
    \/ \E reply \in TransReplies : TranslateIn("p1", reply)
    \/ \E reply \in TransReplies : TranslateOut("p1", reply)
    \/ Helpers({"en", "tr"})

Spec == Init /\ [][Next]_vars

\* two service processes over one store, sessions in the pivot language
NextConc ==
    \/ \E p \in Procs : Accept(p, {"none", "en-US"})
    \/ \E p \in Procs : Serve(p)
    \/ Helpers({"en"})

SpecConc == Init /\ [][NextConc]_vars

\* the steps of a request in service while every append commits
ServeStoreUp(p) ==
    \/ ChatUpsert(p)
    \/ LoadSession(p)
    \/ \E raw \in RawTexts : GenerateOk(p, raw)
    \/ GenerateRaise(p)
    \/ AppendUser(p, TRUE)
    \/ AppendAi(p, TRUE)
    \/ HandlerUser(p, TRUE)
    \/ HandlerAi(p, TRUE)
    \/ \E sr \in StatsReplies, mr \in MetaReplies : Parse(p, sr, mr)
    \/ ExcUser(p, TRUE)
    \/ ExcAi(p, TRUE)
    \/ ResetEnd(p)

\* two service processes over one store that does not fail
NextStoreUp ==
    \/ \E p \in Procs : Accept(p, {"none"})
    \/ \E p \in Procs : ServeStoreUp(p)

SpecStoreUp == Init /\ [][NextStoreUp]_vars

\* both tokens are in use
InitTwoTokens ==
    /\ tokens = AllTokens
    /\ sessions = [t \in AllTokens |-> NoRow]
    /\ chat_messages = [t \in AllTokens |-> <<>>]
    /\ proc = [p \in Procs |-> Idle]
    /\ last = Idle
    /\ nchats = 0
    /\ reset_names = [t \in AllTokens |-> {}]
    /\ reset_clean = [t \in AllTokens |-> FALSE]

\* requests on token tok arrive at process p
AcceptOn(p, tok) ==
    \/ \E uid \in Users, q \in Questions : ChatBegin(p, tok, uid, "none", q)
    \/ ResetDelete(p, tok)

\* two service processes, each serving the requests of one token; the store does not fail
NextTwoTokens ==
    \/ AcceptOn("p1", "s1")
    \/ AcceptOn("p2", "s2")
    \/ \E p \in Procs : ServeStoreUp(p)

SpecTwoTokens == InitTwoTokens /\ [][NextTwoTokens]_vars

\* no process is serving a request
AllIdle == \A p \in Procs : proc[p].pc = "idle"

\* a turn on s1 is handed to instance p when no request is in service and
\* it is p's turn in the rotation
TurnAt(p, hdr, parity) ==
    /\ AllIdle
    /\ nchats % 2 = parity
    /\ \E uid \in Users, q \in Questions : ChatBegin(p, "s1", uid, hdr, q)

\* a reset of s1 is handed to instance p when no request is in service
ResetAt(p) == AllIdle /\ ResetDelete(p, "s1")

\* two service instances behind a balancer that hands the requests of a token
\* to them one at a time, the turns in rotation
NextRotation ==
    \/ TurnAt("p1", "none", 0)
    \/ TurnAt("p2", "en-US", 1)
    \/ \E p \in Procs : ResetAt(p)
    \/ \E p \in Procs : Serve(p)
    \/ Helpers({"en"})

SpecRotation == Init /\ [][NextRotation]_vars

\* one service process whose generator may never answer
NextHang ==
    \/ Accept("p1", {"none"})
    \/ Serve("p1")
    \/ GenerateHangs("p1")

\* a request in service takes its next step as soon as it can
SpecHang == Init /\ [][NextHang]_vars /\ WF_vars(Serve("p1"))

(* ------------------- stripper and block parser on texts ----------------- *)
\* the lines a text is made of
TextLines == {PO(NmD), PC, SO(NmD), SC, FL, SI, PR, BL, HD, MB, SH}

\* the texts of at most MaxLines lines
Texts == UNION { [1..n -> TextLines] : n \in 0..MaxLines }

\* a process holds a raw text
InitText ==
    /\ tokens = {"s1"}
    /\ sessions = [t \in AllTokens |-> NoRow]
    /\ chat_messages = [t \in AllTokens |-> <<>>]
    /\ \E raw \in Texts :
          proc = [p \in Procs |-> IF p = "p1" THEN [Idle EXCEPT !.pc = "text", !.base = raw]
                                  ELSE Idle]
    /\ last = Idle
    /\ nchats = 0
    /\ reset_names = [t \in AllTokens |-> {}]
    /\ reset_clean = [t \in AllTokens |-> FALSE]

\* strip_meta_stats_text applied to the raw text
StripOnce(p) ==
    /\ proc[p].pc = "text"
    /\ proc' = [proc EXCEPT ![p].cleaned = strip_meta_stats_text(proc[p].base),
                            ![p].pc = "stripped"]
    /\ UNCHANGED <<tokens, sessions, chat_messages, last, nchats, reset_names, reset_clean>>

\* strip_meta_stats_text applied to its own result
StripTwice(p) ==
    /\ proc[p].pc = "stripped"
    /\ proc' = [proc EXCEPT ![p].answer = strip_meta_stats_text(proc[p].cleaned),
                            ![p].pc = "restripped"]
    /\ UNCHANGED <<tokens, sessions, chat_messages, last, nchats, reset_names, reset_clean>>

\* fallback_parse_profile_block_new applied to the raw text
FallbackParse(p) ==
    /\ proc[p].pc = "restripped"
    /\ LET found == fallback_parse_profile_block_new(proc[p].base)
       IN  proc' = [proc EXCEPT ![p].players = { found[i] : i \in 1..Len(found) },
                                ![p].pc = "parsed"]
    /\ UNCHANGED <<tokens, sessions, chat_messages, last, nchats, reset_names, reset_clean>>

NextText ==
    \/ StripOnce("p1")
    \/ StripTwice("p1")
    \/ FallbackParse("p1")

SpecText == InitText /\ [][NextText]_vars

(* ------------------------- owners of session rows ----------------------- *)
\* login: each user holds the token the login issued to them
InitOwners ==
    /\ tokens = AllTokens
    /\ sessions = [t \in AllTokens |-> IF t = "s1" THEN Row("u1", "en") ELSE Row("u2", "en")]
    /\ chat_messages = [t \in AllTokens |-> <<>>]
    /\ proc = [p \in Procs |-> Idle]
    /\ last = Idle
    /\ nchats = 0
    /\ reset_names = [t \in AllTokens |-> {}]
    /\ reset_clean = [t \in AllTokens |-> FALSE]

\* require_auth: the user_id of the row of the bearer token, ended or not
require_auth(bearer) == sessions[bearer].user_id

\* chat: a request authenticated with a bearer token names any session_id in its body
ChatAs(p, bearer, session_id) ==
    /\ sessions[bearer].exists
    /\ \E q \in Questions : ChatBegin(p, session_id, require_auth(bearer), "none", q)

\* one service process, two logged-in users; reset takes its session_id from
\* the query and has no auth dependency; the store does not fail
NextOwners ==
    \/ \E bearer \in AllTokens, session_id \in AllTokens : ChatAs("p1", bearer, session_id)
    \/ \E session_id \in AllTokens : ResetDelete("p1", session_id)
    \/ ServeStoreUp("p1")

SpecOwners == InitOwners /\ [][NextOwners]_vars

(* ------------------- the pipeline and the stripper together ------------- *)
\* the pipeline from an empty store, or the stripper on a text
InitNarrative == Init \/ InitText

NextNarrative == Next \/ NextText

SpecNarrative == InitNarrative /\ [][NextNarrative]_vars

(* ----------------------- seen set and dedup filter ---------------------- *)
\* number of messages of a history given to get_seen_players_from_history
MaxMsgs == 2

\* the lines the texts of a history are made of
HistoryLines == {PO(NmD), PO(Nmd), PC, PR}

HistoryTexts == UNION { [1..n -> HistoryLines] : n \in 0..(MaxLines - 2) }

HistoryMsgs == { Msg(role, content, 0) : role \in {"human", "ai"}, content \in HistoryTexts }

\* the hydrated histories of at most MaxMsgs messages
Histories == UNION { [1..n -> HistoryMsgs] : n \in 0..MaxMsgs }

\* the player lists the parsers may hand to the filter
MetaLists  == {<<>>, <<[name |-> PadD]>>, <<[name |-> Nmd]>>, <<[name |-> NmD], [name |-> Nmd]>>}
StatsLists == {<<>>, <<[name |-> NmD, stats |-> <<5>>]>>}

\* a process holds a hydrated history
InitSeen ==
    /\ tokens = {"s1"}
    /\ sessions = [t \in AllTokens |-> NoRow]
    /\ chat_messages = [t \in AllTokens |-> <<>>]
    /\ \E h \in Histories :
          proc = [p \in Procs |-> IF p = "p1" THEN [Idle EXCEPT !.pc = "hist", !.history = h]
                                  ELSE Idle]
    /\ last = Idle
    /\ nchats = 0
    /\ reset_names = [t \in AllTokens |-> {}]
    /\ reset_clean = [t \in AllTokens |-> FALSE]

\* answer_question, lines 200-203: the seen set of the frozen history
ScanSeen(p) ==
    /\ proc[p].pc = "hist"
    /\ proc' = [proc EXCEPT ![p].seen = get_seen_players_from_history(proc[p].history),
                            ![p].pc = "scanned"]
    /\ UNCHANGED <<tokens, sessions, chat_messages, last, nchats, reset_names, reset_clean>>

\* answer_question, line 303: the filter on the parsed players
FilterParsed(p, meta, stats) ==
    /\ proc[p].pc = "scanned"
    /\ LET f == filter_players_by_seen(meta, stats, proc[p].seen)
       IN  proc' = [proc EXCEPT ![p].parsed = NamesOf(meta) \cup NamesOf(stats),
                                ![p].players =
                                    { [name |-> f.meta[i].name] : i \in 1..Len(f.meta) }
                                        \cup { [name |-> f.stats[i].name] : i \in 1..Len(f.stats) },
                                ![p].pc = "filtered"]
    /\ UNCHANGED <<tokens, sessions, chat_messages, last, nchats, reset_names, reset_clean>>

NextSeen ==
    \/ ScanSeen("p1")
    \/ \E meta \in MetaLists, stats \in StatsLists : FilterParsed("p1", meta, stats)

SpecSeen == InitSeen /\ [][NextSeen]_vars

(* ------------------------ meta parser and payload ----------------------- *)
\* the values written after "- Potential:" in a profile block
PotentialTexts == {<<" ", "1", "5", "0">>, <<"-", "5">>, <<"5", "0">>, <<"x">>}

\* the lines of a text with a profile block
ProfileLines == {PO(NmD), FL, PC} \cup { PT(v) : v \in PotentialTexts }

ProfileTexts == UNION { [1..n -> ProfileLines] : n \in 0..(MaxLines - 1) }

\* the player records of the meta parser model's JSON
JsonPlayers ==
    { [name |-> n, potential |-> v] :
        n \in {NmD, PadD},
        v \in {PNone, PInt(-5), PInt(50), PInt(150), PStr(<<"x">>)} }

\* the replies of the meta parser model
PayloadReplies ==
    {Invalid, NotObject} \cup { Json(ps) : ps \in UNION { [1..n -> JsonPlayers] : n \in 0..MaxPlayers } }

\* a process holds a raw answer and the reply of the meta parser model to it
InitPayload ==
    /\ tokens = {"s1"}
    /\ sessions = [t \in AllTokens |-> NoRow]
    /\ chat_messages = [t \in AllTokens |-> <<>>]
    /\ \E raw \in ProfileTexts, reply \in PayloadReplies :
          proc = [p \in Procs |->
                    IF p = "p1" THEN [Idle EXCEPT !.pc = "reply", !.base = raw, !.reply = reply]
                    ELSE Idle]
    /\ last = Idle
    /\ nchats = 0
    /\ reset_names = [t \in AllTokens |-> {}]
    /\ reset_clean = [t \in AllTokens |-> FALSE]

\* answer_question, line 288: parse_player_meta_new on the raw answer
ParseMeta(p) ==
    /\ proc[p].pc = "reply"
    /\ LET meta == parse_player_meta_new(proc[p].reply, proc[p].base)
       IN  proc' = [proc EXCEPT ![p].meta = meta.players,
                                ![p].pc = IF meta.raise THEN "meta_raised" ELSE "meta"]
    /\ UNCHANGED <<tokens, sessions, chat_messages, last, nchats, reset_names, reset_clean>>

\* build_player_payload_new called, as it is defined, with the meta alone
BuildPayload(p) ==
    /\ proc[p].pc = "meta"
    /\ proc' = [proc EXCEPT ![p].players = build_player_payload_new(proc[p].meta),
                            ![p].pc = "payload"]
    /\ UNCHANGED <<tokens, sessions, chat_messages, last, nchats, reset_names, reset_clean>>

NextPayload ==
    \/ ParseMeta("p1")
    \/ BuildPayload("p1")

SpecPayload == InitPayload /\ [][NextPayload]_vars

(* ------------------------------- claims -------------------------------- *)
HasMsg(tok, role, content, turn) ==
    \E i \in 1..Len(chat_messages[tok]) : chat_messages[tok][i] = Msg(role, content, turn)

Returned == last.pc = "done"

\* C1: Dedup monotonicity. A turn that returns never has, in data.players, a
\* name (trimmed, case-folded) that a PROFILE tag of an assistant message
\* persisted before the turn was accepted already carried, no reset in between.
C1_DedupMonotone ==
    Returned => \A pl \in last.players : LowerName(StripName(pl.name)) \notin last.prior

\* a later turn whose answer names a player persisted earlier has returned its data
C1_Witness ==
    /\ Returned /\ last.has_data /\ last.gen = "ok"
    /\ \E n \in last.parsed \cap ProfileTagNames(last.base) : LowerName(n) \in last.prior

\* C2: turns on one session token are mutually exclusive from the load of the
\* history to the append of the assistant message.
Critical == {"translate_in", "generate", "append_user", "append_ai", "h_user", "h_ai"}
C2_MutualExclusion ==
    \A p, o \in Procs :
        (p # o /\ proc[p].op = "chat" /\ proc[o].op = "chat" /\ proc[p].tok = proc[o].tok)
            => ~(proc[p].pc \in Critical /\ proc[o].pc \in Critical)

\* C3: a turn that returns has appended exactly one user message and exactly
\* one assistant message.
C3_ExactlyOnePair == Returned => (last.n_user = 1 /\ last.n_ai = 1)

\* C4: when the generator call fails (exception, or empty response) the turn
\* persists the question and the fallback message, returns the fallback text
\* with no players, and raises only if the store failed.
C4_GenerationFailure ==
    /\ (Returned /\ last.gen \in {"raise", "empty"}) =>
          /\ last.answer = SORRY
          /\ last.players = {}
          /\ ~last.wiped => /\ HasMsg(last.tok, "human", last.question, last.serial)
                            /\ HasMsg(last.tok, "ai", SORRY, last.serial)
    /\ (last.pc = "raised" /\ last.gen \in {"raise", "empty"}) => last.app_failed

\* C5: after a turn has returned, whatever failed in it, the log holds the
\* user's question unless a reset purged it.
C5_QuestionPersisted ==
    (Returned /\ ~last.wiped) => HasMsg(last.tok, "human", last.question, last.serial)

\* a turn whose generation or parse stage failed has returned
C5_Witness ==
    Returned /\ ~last.wiped /\ (last.stage_raise \/ last.gen = "raise")

\* C6: a failed append propagates: no turn returns after one of its appends
\* failed, nor while the generated assistant text is missing from the log.
C6_AppendFailurePropagates ==
    Returned =>
        /\ ~last.app_failed
        /\ (~last.wiped /\ last.gen \in {"ok", "empty"}) =>
              HasMsg(last.tok, "ai", last.base, last.serial)

\* C7: when the parse stage fails the turn returns the stripped raw text as
\* the answer, with an empty players payload.
C7_ParseFailureDegrades ==
    (Returned /\ last.stage_raise) =>
        /\ last.answer = strip_meta_stats_text(last.base)
        /\ last.players = {}

\* C8: a translator call that raises or returns nothing leaves the turn with
\* the untranslated text, as a translator that echoes its input does: the turn
\* does not raise, persists the question and the raw answer, returns the
\* stripped narrative and the payload; in a pivot-language session the
\* translator is not called.
C8_TranslationBestEffort ==
    /\ \A p \in Procs :
          /\ (proc[p].pc = "generate" /\ proc[p].tr_in \in {"raise", "empty", "echo"})
                => proc[p].tq = proc[p].question
          /\ proc[p].pc \in {"translate_in", "translate_out"} => is_turkish(proc[p].lang)
          /\ (proc[p].op = "chat" /\ ~is_turkish(proc[p].lang)) => proc[p].tr_in = "none"
    /\ (Returned /\ last.tr_out \in {"raise", "empty", "echo"}) =>
          /\ last.answer = last.cleaned
          /\ last.has_data
          /\ last.players = {}
          /\ ~last.wiped => /\ HasMsg(last.tok, "human", last.question, last.serial)
                            /\ HasMsg(last.tok, "ai", last.base, last.serial)
    /\ (Returned /\ ~is_turkish(last.lang)) => last.tr_out = "none"
    /\ last.pc = "raised" => last.app_failed

\* a turn of a Turkish session whose outbound translation failed has returned
C8_Witness ==
    Returned /\ is_turkish(last.lang) /\ last.tr_out \in {"raise", "empty"}
             /\ last.base # <<>>

\* C9: the first turn after a completed reset starts from an empty history and
\* an empty seen set, and a name introduced before the reset that its answer
\* introduces again is returned in data.players.
C9_ResetClearsDedup ==
    /\ \A p \in Procs :
          (proc[p].op = "chat" /\ proc[p].after_reset /\ ~proc[p].overlapped
                /\ proc[p].pc \in {"translate_in", "generate"})
              => (proc[p].history = <<>> /\ proc[p].seen = {})
    /\ (Returned /\ last.after_reset /\ ~last.overlapped /\ ~last.app_failed) =>
          \A n \in last.parsed \cap ProfileTagNames(last.base) :
              LowerName(n) \in last.old_names =>
                  \E pl \in last.players : StripName(pl.name) = n

\* C10: whenever a token goes from Ended back to Active its message log is
\* empty at that moment.
C10_RestartFresh ==
    [][\A tok \in AllTokens :
          (sessions[tok].exists /\ sessions[tok].ended /\ ~sessions'[tok].ended)
              => chat_messages[tok] = <<>>]_vars

\* a turn with serial n on tok is being served
TurnInFlight(tok, n) == \E p \in Procs : ChatInFlight(p, tok) /\ proc[p].serial = n

\* C11: in every reachable state the log of a session is a concatenation of
\* whole turns: each user message is immediately followed by the assistant
\* message of the same turn (the last one may still wait for it while its turn
\* is being served).
C11_WholeTurns ==
    \A tok \in AllTokens :
        LET log == chat_messages[tok]
        IN  \A i \in 1..Len(log) :
              log[i].role = "human" =>
                  IF i < Len(log)
                  THEN log[i + 1].role = "ai" /\ log[i + 1].turn = log[i].turn
                  ELSE TurnInFlight(tok, log[i].turn)

\* a is a prefix of b
IsPrefix(a, b) == Len(a) <= Len(b) /\ SubSeq(b, 1, Len(a)) = a

\* the step is the delete of a reset of tok
ResetPurges(tok) ==
    \E p \in Procs : /\ proc[p].pc = "idle"
                     /\ proc'[p].pc = "r_end" /\ proc'[p].op = "reset" /\ proc'[p].tok = tok

\* C12: messages are append-only: every step of start, turn, end and reset
\* leaves the log of each session a prefix of the log after the step, earlier
\* entries unchanged, except the delete of a reset, which removes all the
\* messages of its session at once.
C12_AppendOnly ==
    [][\A tok \in AllTokens :
          \/ IsPrefix(chat_messages[tok], chat_messages'[tok])
          \/ chat_messages'[tok] = <<>> /\ ResetPurges(tok)]_vars

\* a later turn has appended to the log an earlier turn left
C12_Witness ==
    \E tok \in AllTokens :
        LET log == chat_messages[tok]
        IN  Len(log) >= 3 /\ log[1].turn # log[Len(log)].turn

\* C13: a step of a turn or a reset on token A leaves the session row and the
\* messages of every other token B unchanged, and the history and the seen
\* set a turn on A works with are those of A's own log, whatever turns on B
\* are interleaved with it.
C13_TokenIsolation ==
    [][\A p \in Procs :
          /\ proc'[p] # proc[p] =>
                \A B \in AllTokens \ {proc[p].tok, proc'[p].tok} :
                    chat_messages'[B] = chat_messages[B] /\ sessions'[B] = sessions[B]
          /\ (proc'[p].op = "chat" /\ proc'[p].pc = "generate") =>
                /\ proc'[p].history = hydrate(chat_messages'[proc'[p].tok])
                /\ proc'[p].seen = get_seen_players_from_history(proc'[p].history)]_vars

\* a turn on s1 has loaded its history while a turn on s2, whose answer with
\* a profile block is persisted, is still being served
C13_Witness ==
    /\ proc["p1"].op = "chat" /\ proc["p1"].tok = "s1" /\ proc["p1"].pc = "generate"
    /\ proc["p2"].op = "chat" /\ proc["p2"].tok = "s2" /\ proc["p2"].pc = "parse"
    /\ PersistedNames("s2") # {}
    /\ proc["p1"].seen = {}

\* C14: the history and the seen set a turn uses are a function of the durable
\* store only: whichever service instance serves the turn, after whatever
\* turns the other instance served, they are the hydrated log of the token and
\* the names of its assistant messages; an instance keeps nothing of a request
\* once it has ended.
C14_StatelessService ==
    \A p \in Procs :
        /\ (proc[p].op = "chat" /\ proc[p].pc = "generate") =>
              /\ proc[p].history = hydrate(load_chat_messages(proc[p].tok))
              /\ proc[p].seen = get_seen_players_from_history(
                                    hydrate(load_chat_messages(proc[p].tok)))
        /\ proc[p].pc = "idle" => proc[p] = Idle

\* the second instance serves the second turn and finds the names the first
\* instance's turn persisted
C14_Witness ==
    /\ proc["p2"].op = "chat" /\ proc["p2"].pc = "generate" /\ proc["p2"].serial = 2
    /\ proc["p2"].seen # {}
    /\ \E i \in 1..Len(chat_messages["s1"]) : chat_messages["s1"][i].turn = 1

\* C15: every accepted turn eventually returns, even when the generator call
\* never responds.
C15_TurnReturns ==
    (proc["p1"].op = "chat" /\ proc["p1"].pc = "upsert") ~> (proc["p1"].pc = "idle")

\* C16: a turn whose generation succeeded and whose raw text carries a
\* well-formed PROFILE block for a name that is not in the seen set, parsed
\* without error, returns exactly one data.players entry for that name and the
\* stripped narrative as the answer.
C16_NewPlayerReturned ==
    (Returned /\ last.gen = "ok" /\ ~last.app_failed /\ ~is_turkish(last.lang)) =>
        \A n \in last.parsed \cap ProfileTagNames(last.base) :
            LowerName(n) \notin last.prior =>
                /\ Cardinality({ pl \in last.players : StripName(pl.name) = n }) = 1
                /\ last.answer = strip_meta_stats_text(last.base)

\* C17: idempotent stripping: for every raw text t, strip(strip(t)) = strip(t).
C17_StripIdempotent ==
    proc["p1"].pc \in {"restripped", "parsed"} => proc["p1"].answer = proc["p1"].cleaned

\* a text from which the stripper removed lines and kept others was stripped twice
C17_Witness ==
    /\ proc["p1"].pc = "restripped"
    /\ proc["p1"].cleaned # <<>>
    /\ proc["p1"].cleaned # proc["p1"].base
    /\ \E i \in 1..Len(proc["p1"].base) : HeaderDropped(proc["p1"].base, i)

\* text is an open PROFILE tag with a name, field lines, then a closing tag of class close
IsProfileBlockClosedBy(text, close) ==
    /\ Len(text) >= 3
    /\ text[1].t = "popen" /\ StripName(text[1].name) # NoName
    /\ \A i \in 2..(Len(text) - 1) : text[i].t = "field"
    /\ text[Len(text)].t = close

\* C18: tolerant close matching: a PROFILE open tag for X, body lines, then a
\* bare [[/PLAYER_STATS]] closing tag parse as one PROFILE block yielding
\* exactly one entity named X.
C18_CrossKindClose ==
    (proc["p1"].pc = "parsed" /\ IsProfileBlockClosedBy(proc["p1"].base, "sclose")) =>
        proc["p1"].players = {[name |-> StripName(proc["p1"].base[1].name), potential |-> PNone]}

\* text has an open PROFILE tag and no closing tag anywhere
IsUnclosedProfile(text) ==
    /\ \E i \in 1..Len(text) : text[i].t = "popen"
    /\ \A j \in 1..Len(text) : text[j].t \notin {"pclose", "sclose"}

\* C19: for a raw text with a PROFILE open tag and no closing tag anywhere
\* after it, the block parser yields zero entities and the stripped narrative
\* does not contain the open-tag line.
C19_UnclosedDiscarded ==
    (proc["p1"].pc = "parsed" /\ IsUnclosedProfile(proc["p1"].base)) =>
        /\ proc["p1"].players = {}
        /\ \A k \in 1..Len(proc["p1"].cleaned) : proc["p1"].cleaned[k].t # "popen"

\* the step is the return of a reset served by p
ResetReturns(p) == proc[p].op = "reset" /\ proc[p].pc = "r_end" /\ proc'[p].pc = "idle"

NamesPersistedBy(tok, n) ==
    UNION { ProfileTagNames(chat_messages[tok][i].content) :
              i \in { j \in 1..Len(chat_messages[tok]) :
                        chat_messages[tok][j].role = "ai" /\ chat_messages[tok][j].turn = n } }

\* C21: a turn never makes an entity seen (by persisting an assistant message
\* with its PROFILE tag) without delivering that entity in the payload it
\* returns; so every name of a seen set was returned by an earlier turn.
C21_SeenWasDelivered ==
    (Returned /\ ~last.wiped) =>
        \A n \in NamesPersistedBy(last.tok, last.serial) :
            \E pl \in last.players : LowerName(StripName(pl.name)) = LowerName(n)

\* C22: the owning user of a session token never changes once the session row
\* exists: no chat or reset call, by any authenticated user with any
\* session_id, changes the user_id stored for an existing token.
C22_OwnerNeverChanges ==
    [][\A tok \in AllTokens :
          sessions[tok].exists =>
              /\ sessions'[tok].exists
              /\ sessions'[tok].user_id = sessions[tok].user_id]_vars

\* the log of p's token holds an assistant message of the turn p serves
AiPersisted(p) ==
    \E i \in 1..Len(chat_messages[proc[p].tok]) :
        /\ chat_messages[proc[p].tok][i].role = "ai"
        /\ chat_messages[proc[p].tok][i].turn = proc[p].serial

\* C23: in a turn whose generation succeeds the steps run in the order load,
\* compose, generate, parse, strip, persist, outbound translate, return: while
\* the turn has not parsed and stripped its answer the log holds no assistant
\* message of the turn, and when the outbound translation starts it holds one.
C23_PersistAfterParse ==
    \A p \in Procs :
        (proc[p].op = "chat" /\ proc[p].gen = "ok") =>
            /\ proc[p].pc = "parse" => ~AiPersisted(p)
            /\ (proc[p].pc = "translate_out" /\ ~proc[p].wiped) => AiPersisted(p)

\* C24: the assistant message a successful turn persists is the generator's
\* output (base_answer), untranslated and with its PROFILE/STATS blocks intact;
\* neither the stripped nor the translated narrative is written to the log,
\* in any session language.
C24_RawPersisted ==
    /\ (Returned /\ last.has_data /\ ~last.wiped) =>
          /\ HasMsg(last.tok, "ai", last.base, last.serial)
          /\ \A i \in 1..Len(chat_messages[last.tok]) :
                LET m == chat_messages[last.tok][i]
                IN  (m.role = "ai" /\ m.turn = last.serial) => m.content = last.base
    /\ \A tok \in AllTokens : \A i \in 1..Len(chat_messages[tok]) :
          \A k \in 1..Len(chat_messages[tok][i].content) :
              chat_messages[tok][i].content[k].t # "translated"

\* a turn of a Turkish session has returned a translated narrative of an
\* answer whose blocks the stripper removed
C24_Witness ==
    /\ Returned /\ last.has_data /\ ~last.wiped /\ is_turkish(last.lang)
    /\ last.tr_out = "text" /\ last.answer # last.cleaned
    /\ last.cleaned # last.base /\ ProfileTagNames(last.base) # {}

\* lines o..c of text are a well-formed block: an OPEN followed, before
\* another OPEN of its kind, by the first CLOSE of either kind
WellFormedAt(text, o, c) ==
    /\ o < c /\ text[o].t \in {"popen", "sopen"} /\ text[c].t \in {"pclose", "sclose"}
    /\ \A k \in (o + 1)..(c - 1) : text[k].t \notin {"pclose", "sclose", text[o].t}

InBlock(text, i) ==
    \E o \in 1..i, c \in i..Len(text) : WellFormedAt(text, o, c)

\* the lines of text from i on that lie in no well-formed block, in order
RECURSIVE OutsideBlocks(_, _)
OutsideBlocks(text, i) ==
    IF i > Len(text) THEN <<>>
    ELSE (IF InBlock(text, i) THEN <<>> ELSE <<text[i]>>) \o OutsideBlocks(text, i + 1)

\* a is b with some of its lines left out
RECURSIVE IsSubSeq(_, _)
IsSubSeq(a, b) ==
    IF a = <<>> THEN TRUE
    ELSE IF b = <<>> THEN FALSE
    ELSE IF Head(a) = Head(b) THEN IsSubSeq(Tail(a), Tail(b))
    ELSE IsSubSeq(a, Tail(b))

\* C25: the narrative of a successful turn holds no line of a well-formed
\* PROFILE or STATS block of the raw text, whether the entity of the block was
\* new or seen: the narrative is made of lines outside the blocks, for every
\* text the stripper is given, and a turn that re-emits the block of a seen
\* entity returns that narrative with no players.
C25_BlocksStripped ==
    /\ \A p \in Procs :
          proc[p].pc \in {"stripped", "restripped", "parsed", "translate_out"} =>
              IsSubSeq(proc[p].cleaned, OutsideBlocks(proc[p].base, 1))
    /\ (Returned /\ last.has_data) =>
          /\ IsSubSeq(last.cleaned, OutsideBlocks(last.base, 1))
          /\ last.tr_out \in {"none", "raise", "empty", "echo"} => last.answer = last.cleaned
          /\ (\E n \in ProfileTagNames(last.base) : n \in last.prior) => last.players = {}

\* a turn whose answer re-emits the block of a seen entity has returned the
\* prose that follows the block
C25_Witness ==
    /\ Returned /\ last.has_data /\ last.players = {}
    /\ \E n \in ProfileTagNames(last.base) : n \in last.prior
    /\ last.answer = <<PR>> /\ Len(last.base) > 1

\* the prose lines of a text, in order
ProseOf(text) == SelectSeq(text, LAMBDA l : l.t = "prose")

\* C26: the stripper keeps, in their order, the lines outside every
\* well-formed block and outside the legacy header/bullet pattern: the prose
\* of the narrative is the prose outside the well-formed blocks, and of an
\* OPEN tag without CLOSE only the open line is dropped.
C26_ProseOutsideBlocksKept ==
    \A p \in Procs :
        proc[p].pc \in {"stripped", "restripped", "parsed"} =>
            /\ ProseOf(proc[p].cleaned) = ProseOf(OutsideBlocks(proc[p].base, 1))
            /\ \A k \in 1..Len(proc[p].cleaned) : proc[p].cleaned[k].t \notin {"popen", "sopen"}

\* the trimmed, case-folded names of the well-formed PROFILE blocks of the
\* assistant messages of a history
WellFormedProfileNames(history) ==
    { LowerName(StripName(history[i].content[o].name)) :
        <<i, o>> \in { io \in (1..Len(history)) \X (1..MaxLines) :
                         /\ history[io[1]].role = "ai"
                         /\ io[2] <= Len(history[io[1]].content)
                         /\ history[io[1]].content[io[2]].t = "popen"
                         /\ \E c \in 1..Len(history[io[1]].content) :
                               WellFormedAt(history[io[1]].content, io[2], c) } }

\* C27: the seen set of a turn is the set of the normalized names of the
\* well-formed PROFILE blocks of the persisted assistant messages: a PROFILE
\* tag of a user message, or an OPEN tag without CLOSE, makes no name seen.
C27_SeenIsWellFormedBlocks ==
    \A p \in Procs :
        proc[p].pc \in {"scanned", "filtered"} =>
            { LowerName(StripName(n)) : n \in proc[p].seen }
                = WellFormedProfileNames(proc[p].history)

\* C28: the dedup filter returns exactly the parsed entities whose name,
\* trimmed and case-folded, is absent from the seen set: a parsed name that
\* differs from a seen name only in letter case or surrounding whitespace is
\* treated as seen and excluded.
C28_FilterCaseFolds ==
    \A p \in Procs :
        proc[p].pc = "filtered" =>
            { StripName(pl.name) : pl \in proc[p].players }
                = { n \in proc[p].parsed :
                      LowerName(n) \notin { LowerName(StripName(s)) : s \in proc[p].seen } }

\* the first record of meta whose stripped name is n
FirstRecord(meta, n) ==
    LET idx == { i \in 1..Len(meta) : meta[i].name # NoName /\ StripName(meta[i].name) = n }
    IN  meta[CHOOSE i \in idx : \A k \in idx : i <= k]

\* C29: when one response has several blocks or parsed records for the same
\* entity name, the payload has a single entry for that name, with the fields
\* of the first occurrence: later duplicates add no entry and change no field.
C29_FirstOccurrenceKept ==
    \A p \in Procs :
        proc[p].pc = "payload" =>
            \A n \in NamesOf(proc[p].meta) :
                /\ Cardinality({ pl \in proc[p].players : pl.name = n }) = 1
                /\ \A pl \in proc[p].players :
                      pl.name = n => pl.potential = FirstRecord(proc[p].meta, n).potential

\* C30: every potential of a returned player is absent/null or an integer
\* between 0 and 100, whether the model's JSON or the profile-block fallback
\* produced it.
C30_PotentialInRange ==
    \A p \in Procs :
        proc[p].pc = "payload" =>
            \A pl \in proc[p].players :
                \/ pl.potential = PNone
                \/ pl.potential.k = "int" /\ pl.potential.v \in 0..100

====
